---- MODULE Spec2Model ----
(***************************************************************************)
(* Model of the base_xx codecs: Base36, Base58, Base64 (radix codecs built *)
(* on byte-array long division and Horner accumulation), Hex and Uuencode. *)
(*                                                                         *)
(* A byte buffer (Vec<u8>, &[u8]) is a sequence of integers in 0..255.     *)
(* A text (&str, String) is a sequence of Unicode scalar values (chars).   *)
(* A call's outcome is a record: kind "Ok" with the value in val, kind     *)
(* "Err" with the SerialiseError message in msg (and the formatted number  *)
(* in n), or kind "Panic" with the panic message in msg.                   *)
(***************************************************************************)
EXTENDS Integers, Sequences, FiniteSets, TLC

\* ------------------------------------------------------------------------
\* Bounds of the model
\* ------------------------------------------------------------------------
\* longest byte buffer drawn exhaustively over ByteVals
MaxLen == 3
\* longest patterned byte buffer (above 45, so that uuencode spans two lines)
MaxLongLen == 47
\* longest raw text drawn exhaustively over RawChars
MaxTextLen == 3
\* largest explicit fixed size handed to the radix decoders
MaxSize == 3

\* ------------------------------------------------------------------------
\* Outcomes
\* ------------------------------------------------------------------------
Ok(v) == [kind |-> "Ok", val |-> v, msg |-> "", n |-> 0]

Err(m, k) == [kind |-> "Err", val |-> <<>>, msg |-> m, n |-> k]

Panic(m) == [kind |-> "Panic", val |-> <<>>, msg |-> m, n |-> 0]

NoResult == [kind |-> "None", val |-> <<>>, msg |-> "", n |-> 0]

\* ------------------------------------------------------------------------
\* Standard-library helpers used by the codecs
\* ------------------------------------------------------------------------
\* char::is_whitespace (the White_Space property), as used by str::trim
is_whitespace(c) ==
    \/ c \in 9..13
    \/ c = 32
    \/ c = 133
    \/ c = 160
    \/ c = 5760
    \/ c \in 8192..8202
    \/ c \in {8232, 8233, 8239, 8287, 12288}

RECURSIVE trim_start(_)
trim_start(s) ==
    IF s # <<>> /\ is_whitespace(Head(s)) THEN trim_start(Tail(s)) ELSE s

RECURSIVE trim_end(_)
trim_end(s) ==
    IF s # <<>> /\ is_whitespace(s[Len(s)])
    THEN trim_end(SubSeq(s, 1, Len(s) - 1))
    ELSE s

\* str::trim that leaves the end alone
trim_startonly(s) == trim_start(s)

\* str::trim
trim(s) == trim_end(trim_start(s))

\* char::to_ascii_lowercase
to_ascii_lowercase(c) == IF c \in 65..90 THEN c + 32 ELSE c

\* `c as u8` for a char: the scalar value truncated to its low 8 bits
char_as_u8(c) == c % 256

\* the UTF-8 encoding of one char, as iterated by str::bytes / str::as_bytes
utf8_char(c) ==
    IF c < 128 THEN <<c>>
    ELSE IF c < 2048 THEN <<192 + (c \div 64), 128 + (c % 64)>>
    ELSE IF c < 65536
         THEN <<224 + (c \div 4096), 128 + ((c \div 64) % 64), 128 + (c % 64)>>
         ELSE <<240 + (c \div 262144), 128 + ((c \div 4096) % 64),
                128 + ((c \div 64) % 64), 128 + (c % 64)>>

\* number of UTF-8 bytes of the chars before index i, less (i - 1)
utf8_extra(s, i) ==
    Cardinality({j \in 1..(i - 1) : s[j] >= 128})
        + Cardinality({j \in 1..(i - 1) : s[j] >= 2048})
        + Cardinality({j \in 1..(i - 1) : s[j] >= 65536})

\* str::bytes / str::as_bytes: the chars' UTF-8 encodings, concatenated
\* (an all-ASCII text is its own byte sequence)
str_bytes(s) ==
    IF \A j \in 1..Len(s) : s[j] < 128 THEN s
    ELSE [k \in 1..(Len(s) + utf8_extra(s, Len(s) + 1)) |->
             LET i == CHOOSE i \in 1..Len(s) :
                          /\ (i - 1) + utf8_extra(s, i) < k
                          /\ k <= i + utf8_extra(s, i + 1)
             IN  utf8_char(s[i])[k - ((i - 1) + utf8_extra(s, i))]]

\* Iterator::position over an alphabet: 0-based index of the first match,
\* -1 for None
position(alphabet, x) ==
    IF \E i \in 1..Len(alphabet) : alphabet[i] = x
    THEN (CHOOSE i \in 1..Len(alphabet) :
              /\ alphabet[i] = x
              /\ \A j \in 1..(i - 1) : alphabet[j] # x) - 1
    ELSE -1

\* `while n.first().copied() == Some(0) { n.remove(0); }`
RECURSIVE strip_front_zeros(_)
strip_front_zeros(n) ==
    IF n # <<>> /\ Head(n) = 0 THEN strip_front_zeros(Tail(n)) ELSE n

\* `while bytes.len() > 1 && bytes[0] == 0 { bytes.remove(0); }`
RECURSIVE strip_to_one(_)
strip_to_one(acc) ==
    IF Len(acc) > 1 /\ acc[1] = 0 THEN strip_to_one(Tail(acc)) ELSE acc

\* `while carry > 0 { acc.insert(0, carry & 0xff); carry >>= 8; }`
RECURSIVE push_carry(_, _)
push_carry(acc, carry) ==
    IF carry > 0
    THEN push_carry(<<carry % 256>> \o acc, carry \div 256)
    ELSE acc

\* `vec![0u8; k]`
zeros(k) == [i \in 1..k |-> 0]

\* reverse of a sequence (`iter().rev()`, `Vec::reverse`)
reverse(s) == [i \in 1..Len(s) |-> s[Len(s) - i + 1]]

\* ------------------------------------------------------------------------
\* Base36
\* ------------------------------------------------------------------------
ALPHABET36 ==
    <<48, 49, 50, 51, 52, 53, 54, 55, 56, 57, 97, 98, 99, 100, 101, 102,
      103, 104, 105, 106, 107, 108, 109, 110, 111, 112, 113, 114, 115, 116,
      117, 118, 119, 120, 121, 122>>

\* one pass of the inner long-division loop of to_base36, from index i
RECURSIVE div36(_, _, _)
div36(n, i, rem) ==
    IF i > Len(n) THEN [n |-> n, rem |-> rem, panic |-> FALSE]
    ELSE LET v == n[i] + (rem * 256)
         IN  IF v \div 36 > 255
             THEN [n |-> n, rem |-> rem, panic |-> TRUE]
             ELSE div36([n EXCEPT ![i] = v \div 36], i + 1, v % 36)

\* the outer `while !n.is_empty()` loop of to_base36
RECURSIVE digits36(_, _)
digits36(n, out) ==
    IF n = <<>> THEN Ok(out)
    ELSE LET d == div36(n, 1, 0)
         IN  IF d.panic \/ d.rem > 255
             THEN Panic("internal error: entered unreachable code")
             ELSE digits36(strip_front_zeros(d.n), Append(out, d.rem))

\* to_base36 without the final reversal: digits least significant first
to_base36_norev(bytes) ==
    IF bytes = <<>> \/ \A i \in 1..Len(bytes) : bytes[i] = 0
    THEN Ok(<<48>>)
    ELSE LET r == digits36(bytes, <<>>)
         IN  IF r.kind # "Ok" THEN r
             ELSE Ok([i \in 1..Len(r.val) |-> ALPHABET36[r.val[i] + 1]])

\* to_base36 over an alphabet one symbol short
to_base36_shortalphabet(bytes) ==
    IF bytes = <<>> \/ \A i \in 1..Len(bytes) : bytes[i] = 0
    THEN Ok(<<48>>)
    ELSE LET r == digits36(bytes, <<>>)
         IN  IF r.kind # "Ok" THEN r
             ELSE IF \E i \in 1..Len(r.val) : r.val[i] >= 35
                  THEN Panic("index out of bounds")
                  ELSE Ok([i \in 1..Len(r.val) |->
                              ALPHABET36[reverse(r.val)[i] + 1]])

to_base36(bytes) ==
    IF bytes = <<>> \/ \A i \in 1..Len(bytes) : bytes[i] = 0
    THEN Ok(<<48>>)
    ELSE LET r == digits36(bytes, <<>>)
         IN  IF r.kind # "Ok" THEN r
             ELSE IF \E i \in 1..Len(r.val) : r.val[i] >= 36
                  THEN Panic("index out of bounds")
                  ELSE Ok([i \in 1..Len(r.val) |->
                              ALPHABET36[reverse(r.val)[i] + 1]])

\* `for b in acc.iter_mut().rev()`: multiply by 36 and add the carry,
\* from the last byte (index i) to the first
RECURSIVE muladd36(_, _, _)
muladd36(acc, i, carry) ==
    IF i < 1 THEN [acc |-> acc, carry |-> carry]
    ELSE LET v == acc[i] * 36 + carry
         IN  muladd36([acc EXCEPT ![i] = v % 256], i - 1, v \div 256)

\* the body of the `for c in s.chars()` loop of base36_to_bytes
step36(acc, c) ==
    LET digit == position(ALPHABET36, char_as_u8(to_ascii_lowercase(c)))
    IN  IF digit < 0 THEN Err("Invalid base36 character", 0)
        ELSE LET m == muladd36(acc, Len(acc), digit)
             IN  Ok(push_carry(m.acc, m.carry))

\* the `for c in s.chars()` loop of base36_to_bytes
RECURSIVE horner36(_, _)
horner36(s, acc) ==
    IF s = <<>> THEN Ok(acc)
    ELSE LET r == step36(acc, Head(s))
         IN  IF r.kind # "Ok" THEN r ELSE horner36(Tail(s), r.val)

\* base36_to_bytes whose early return yields an empty vector
base36_to_bytes_emptyvec(base36) ==
    LET s == trim(base36)
    IN  IF s = <<>> \/ s = <<48>> THEN Ok(<<>>)
        ELSE LET r == horner36(s, <<0>>)
             IN  IF r.kind # "Ok" THEN r ELSE Ok(strip_to_one(r.val))

base36_to_bytes(base36) ==
    LET s == trim(base36)
    IN  IF s = <<>> \/ s = <<48>> THEN Ok(<<0>>)
        ELSE LET r == horner36(s, <<0>>)
             IN  IF r.kind # "Ok" THEN r ELSE Ok(strip_to_one(r.val))

\* from_base36 rejecting a value that fills the size exactly (>= for >)
from_base36_ge(base36, size) ==
    LET r == base36_to_bytes(base36)
    IN  IF r.kind # "Ok" THEN r
        ELSE IF Len(r.val) >= size /\ size > 0
             THEN Err("base36 value does not fit in {size} bytes", size)
             ELSE IF Len(r.val) < size /\ size > 0
                  THEN Ok(zeros(size - Len(r.val)) \o r.val)
                  ELSE Ok(r.val)

from_base36(base36, size) ==
    LET r == base36_to_bytes(base36)
    IN  IF r.kind # "Ok" THEN r
        ELSE IF Len(r.val) > size /\ size > 0
             THEN Err("base36 value does not fit in {size} bytes", size)
             ELSE IF Len(r.val) < size /\ size > 0
                  THEN Ok(zeros(size - Len(r.val)) \o r.val)
                  ELSE Ok(r.val)

\* ------------------------------------------------------------------------
\* Base58
\* ------------------------------------------------------------------------
ALPHABET58 ==
    <<49, 50, 51, 52, 53, 54, 55, 56, 57, 65, 66, 67, 68, 69, 70, 71, 72,
      74, 75, 76, 77, 78, 80, 81, 82, 83, 84, 85, 86, 87, 88, 89, 90, 97,
      98, 99, 100, 101, 102, 103, 104, 105, 106, 107, 109, 110, 111, 112,
      113, 114, 115, 116, 117, 118, 119, 120, 121, 122>>

\* `for b in &mut n` of to_base58: one long-division pass, from index i
RECURSIVE div58(_, _, _)
div58(n, i, rem) ==
    IF i > Len(n) THEN [n |-> n, rem |-> rem, panic |-> FALSE]
    ELSE LET v == (rem * 256) + n[i]
         IN  IF v \div 58 > 255
             THEN [n |-> n, rem |-> rem, panic |-> TRUE]
             ELSE div58([n EXCEPT ![i] = v \div 58], i + 1, v % 58)

\* `while !n.is_empty() && n.iter().any(|&b| b != 0)` of to_base58;
\* out collects ALPHABET[rem]
RECURSIVE digits58(_, _)
digits58(n, out) ==
    IF n = <<>> \/ \A i \in 1..Len(n) : n[i] = 0 THEN Ok(out)
    ELSE LET d == div58(n, 1, 0)
         IN  IF d.panic
             THEN Panic("base58 division quotient must fit in u8")
             ELSE IF d.rem >= 58 THEN Panic("index out of bounds")
             ELSE digits58(strip_front_zeros(d.n),
                           Append(out, ALPHABET58[d.rem + 1]))

to_base58(bytes) ==
    IF bytes = <<>> THEN Ok(<<48>>)
    ELSE IF \A i \in 1..Len(bytes) : bytes[i] = 0 THEN Ok(<<48>>)
    ELSE LET r == digits58(bytes, <<>>)
         IN  IF r.kind # "Ok" THEN r ELSE Ok(reverse(r.val))

RECURSIVE muladd58(_, _, _)
muladd58(bytes, i, carry) ==
    IF i < 1 THEN [acc |-> bytes, carry |-> carry]
    ELSE LET v == bytes[i] * 58 + carry
         IN  muladd58([bytes EXCEPT ![i] = v % 256], i - 1, v \div 256)

\* the body of the `for c in s.bytes()` loop of base58_to_bytes
step58(bytes, c) ==
    LET pos == position(ALPHABET58, c)
    IN  IF pos < 0 THEN Err("invalid base58 character", 0)
        ELSE LET m == muladd58(bytes, Len(bytes), pos)
             IN  Ok(push_carry(m.acc, m.carry))

\* the `for c in s.bytes()` loop of base58_to_bytes; s is the UTF-8 bytes
RECURSIVE horner58(_, _)
horner58(s, bytes) ==
    IF s = <<>> THEN Ok(bytes)
    ELSE LET r == step58(bytes, Head(s))
         IN  IF r.kind # "Ok" THEN r ELSE horner58(Tail(s), r.val)

base58_to_bytes(base58) ==
    LET s == trim(base58)
    IN  IF s = <<>> \/ s = <<48>> THEN Ok(<<0>>)
        ELSE LET r == horner58(str_bytes(s), <<0>>)
             IN  IF r.kind # "Ok" THEN r ELSE Ok(strip_to_one(r.val))

\* try_from_base58 whose overflow test forgets `size > 0`
try_from_base58_nosizeguard(base58, size) ==
    LET r == base58_to_bytes(base58)
    IN  IF r.kind # "Ok" THEN r
        ELSE IF Len(r.val) > size
             THEN Err("base58 value does not fit in {size} bytes", size)
             ELSE IF Len(r.val) < size /\ size > 0
                  THEN Ok(zeros(size - Len(r.val)) \o r.val)
                  ELSE Ok(r.val)

try_from_base58(base58, size) ==
    LET r == base58_to_bytes(base58)
    IN  IF r.kind # "Ok" THEN r
        ELSE IF Len(r.val) > size /\ size > 0
             THEN Err("base58 value does not fit in {size} bytes", size)
             ELSE IF Len(r.val) < size /\ size > 0
                  THEN Ok(zeros(size - Len(r.val)) \o r.val)
                  ELSE Ok(r.val)

\* ------------------------------------------------------------------------
\* Base64 (radix 64 over a custom digit order)
\* ------------------------------------------------------------------------
ALPHABET64 ==
    <<65, 66, 67, 68, 69, 70, 71, 72, 73, 74, 75, 76, 77, 78, 79, 80, 81,
      82, 83, 84, 85, 86, 87, 88, 89, 90, 97, 98, 99, 100, 101, 102, 103,
      104, 105, 106, 107, 108, 109, 110, 111, 112, 113, 114, 115, 116, 117,
      118, 119, 120, 121, 122, 48, 49, 50, 51, 52, 53, 54, 55, 56, 57, 43,
      47>>

RECURSIVE div64(_, _, _)
div64(n, i, rem) ==
    IF i > Len(n) THEN [n |-> n, rem |-> rem, panic |-> FALSE]
    ELSE LET v == (rem * 256) + n[i]
         IN  IF v \div 64 > 255
             THEN [n |-> n, rem |-> rem, panic |-> TRUE]
             ELSE div64([n EXCEPT ![i] = v \div 64], i + 1, v % 64)

RECURSIVE digits64(_, _)
digits64(n, out) ==
    IF n = <<>> \/ \A i \in 1..Len(n) : n[i] = 0 THEN Ok(out)
    ELSE LET d == div64(n, 1, 0)
         IN  IF d.panic
             THEN Panic("internal error: entered unreachable code")
             ELSE IF d.rem >= 64 THEN Panic("index out of bounds")
             ELSE digits64(strip_front_zeros(d.n),
                           Append(out, ALPHABET64[d.rem + 1]))

\* try_to_base64 without the all-zero early return
try_to_base64_nozero(bytes) ==
    IF bytes = <<>> THEN Ok(<<48>>)
    ELSE LET r == digits64(bytes, <<>>)
         IN  IF r.kind # "Ok" THEN r ELSE Ok(reverse(r.val))

try_to_base64(bytes) ==
    IF bytes = <<>> THEN Ok(<<48>>)
    ELSE IF \A i \in 1..Len(bytes) : bytes[i] = 0 THEN Ok(<<48>>)
    ELSE LET r == digits64(bytes, <<>>)
         IN  IF r.kind # "Ok" THEN r ELSE Ok(reverse(r.val))

RECURSIVE muladd64(_, _, _)
muladd64(bytes, i, carry) ==
    IF i < 1 THEN [acc |-> bytes, carry |-> carry]
    ELSE LET v == bytes[i] * 64 + carry
         IN  muladd64([bytes EXCEPT ![i] = v % 256], i - 1, v \div 256)

\* the body of the `for c in s.bytes()` loop of base64_to_bytes
step64(bytes, c) ==
    LET pos == position(ALPHABET64, c)
    IN  IF pos < 0 THEN Err("invalid base64 character", 0)
        ELSE LET m == muladd64(bytes, Len(bytes), pos)
             IN  Ok(push_carry(m.acc, m.carry))

\* the `for c in s.bytes()` loop of base64_to_bytes; s is the UTF-8 bytes
RECURSIVE horner64(_, _)
horner64(s, bytes) ==
    IF s = <<>> THEN Ok(bytes)
    ELSE LET r == step64(bytes, Head(s))
         IN  IF r.kind # "Ok" THEN r ELSE horner64(Tail(s), r.val)

base64_to_bytes(base64) ==
    LET s == trim(base64)
    IN  IF s = <<>> \/ s = <<48>> THEN Ok(<<0>>)
        ELSE LET r == horner64(str_bytes(s), <<0>>)
             IN  IF r.kind # "Ok" THEN r ELSE Ok(strip_to_one(r.val))

try_from_base64(base64, size) ==
    LET r == base64_to_bytes(base64)
    IN  IF r.kind # "Ok" THEN r
        ELSE IF Len(r.val) > size /\ size > 0
             THEN Err("base64 value does not fit in {size} bytes", size)
             ELSE IF Len(r.val) < size /\ size > 0
                  THEN Ok(zeros(size - Len(r.val)) \o r.val)
                  ELSE Ok(r.val)

\* ------------------------------------------------------------------------
\* Hex
\* ------------------------------------------------------------------------
ALPHABET16 ==
    <<48, 49, 50, 51, 52, 53, 54, 55, 56, 57, 97, 98, 99, 100, 101, 102>>

\* to_hex with the two nibbles of each byte in the wrong order
to_hex_swapped(bytes) ==
    [k \in 1..(2 * Len(bytes)) |->
        IF k % 2 = 1
        THEN ALPHABET16[(bytes[(k + 1) \div 2] % 16) + 1]
        ELSE ALPHABET16[(bytes[k \div 2] \div 16) + 1]]

\* `for &b in bytes`: out[2i] is the high nibble of bytes[i], out[2i+1]
\* the low nibble
to_hex(bytes) ==
    [k \in 1..(2 * Len(bytes)) |->
        IF k % 2 = 1
        THEN ALPHABET16[(bytes[(k + 1) \div 2] \div 16) + 1]
        ELSE ALPHABET16[(bytes[k \div 2] % 16) + 1]]

\* from_hex_digit without the arm for 'A'..'F'
from_hex_digit_loweronly(c) ==
    IF c \in 48..57 THEN c - 48
    ELSE IF c \in 97..102 THEN 10 + (c - 97)
    ELSE -1

\* from_hex_digit whose lowercase arm forgets the offset 10
from_hex_digit_noten(c) ==
    IF c \in 48..57 THEN c - 48
    ELSE IF c \in 97..102 THEN c - 97
    ELSE IF c \in 65..70 THEN 10 + (c - 65)
    ELSE -1

\* Option<u8>: -1 for None
from_hex_digit(c) ==
    IF c \in 48..57 THEN c - 48
    ELSE IF c \in 97..102 THEN 10 + (c - 97)
    ELSE IF c \in 65..70 THEN 10 + (c - 65)
    ELSE -1

\* the `for i in (0..bytes.len()).step_by(2)` loop of from_hex: it panics
\* at the first digit that from_hex_digit refuses (both panics carry the
\* same message), else pushes (hi << 4) | lo for each pair
hex_pairs(bytes) ==
    IF \E i \in 1..Len(bytes) : from_hex_digit(bytes[i]) < 0
    THEN Panic("invalid hex character")
    ELSE Ok([i \in 1..(Len(bytes) \div 2) |->
                ((from_hex_digit(bytes[(2 * i) - 1]) * 16) % 256)
                    + from_hex_digit(bytes[2 * i])])

from_hex(hex) ==
    LET s == trim(hex)
    IN  IF s = <<>> THEN Ok(<<>>)
        ELSE IF Len(str_bytes(s)) % 2 # 0
             THEN Panic("hex string must have an even length")
             ELSE hex_pairs(str_bytes(s))

\* ------------------------------------------------------------------------
\* Uuencode
\* ------------------------------------------------------------------------
\* enc6 without the backtick for zero
enc6_space(v) == (v % 64) + 32

enc6(v) == IF v % 64 = 0 THEN 96 ELSE (v % 64) + 32

\* dec6 that refuses nothing
dec6_lenient(c) == (c - 32) % 64

\* Option<u8>: -1 for None
dec6(c) ==
    IF c = 96 \/ c = 32 THEN 0
    ELSE IF c \in 32..95 THEN (c - 32) % 64
    ELSE -1

enc_len(n) == IF n > 255 THEN enc6(0) ELSE enc6(n)

\* dec_len that rounds the declared length up to whole triples
dec_len_triples(c) == IF dec6(c) < 0 THEN -1 ELSE 3 * ((dec6(c) + 2) \div 3)

\* dec_len that knows the backtick only as the zero length
dec_len_backtickonly(c) == IF c = 32 THEN -1 ELSE dec6(c)

dec_len(c) == dec6(c)

\* `for triple in chunk.chunks(3)`
RECURSIVE uu_triples(_)
uu_triples(chunk) ==
    IF chunk = <<>> THEN <<>>
    ELSE LET b0 == chunk[1]
             b1 == IF Len(chunk) >= 2 THEN chunk[2] ELSE 0
             b2 == IF Len(chunk) >= 3 THEN chunk[3] ELSE 0
             c0 == (b0 \div 4) % 64
             c1 == (((b0 * 16) % 256) + (b1 \div 16)) % 64
             c2 == (((b1 * 4) % 256) + (b2 \div 64)) % 64
             c3 == b2 % 64
         IN  <<enc6(c0), enc6(c1), enc6(c2), enc6(c3)>>
                 \o uu_triples(SubSeq(chunk, 4, Len(chunk)))

\* `for chunk in bytes.chunks(45)`
RECURSIVE uu_chunks(_)
uu_chunks(bytes) ==
    IF bytes = <<>> THEN <<>>
    ELSE LET k == IF Len(bytes) < 45 THEN Len(bytes) ELSE 45
             chunk == SubSeq(bytes, 1, k)
         IN  <<enc_len(Len(chunk))>> \o uu_triples(chunk) \o <<10>>
                 \o uu_chunks(SubSeq(bytes, k + 1, Len(bytes)))

\* to_uuencode without the terminator line
to_uuencode_noterm(bytes) == uu_chunks(bytes)

to_uuencode(bytes) == uu_chunks(bytes) \o <<96, 10>>

\* indexes at which a line of s starts: 1 and right after each '\n'
line_starts(s) ==
    {p \in 1..Len(s) : p = 1 \/ s[p - 1] = 10}

\* the line of s that starts at p, without its final '\n' and without a
\* '\r' that stood right before that '\n'
line_at(s, p) ==
    IF \E q \in p..Len(s) : s[q] = 10
    THEN LET q == CHOOSE q \in p..Len(s) :
                      s[q] = 10 /\ \A r \in p..(q - 1) : s[r] # 10
         IN  IF q > p /\ s[q - 1] = 13
             THEN SubSeq(s, p, q - 2)
             ELSE SubSeq(s, p, q - 1)
    ELSE SubSeq(s, p, Len(s))

\* str::lines: split after each '\n'; a line loses its final '\n' and then
\* a '\r' that stood right before it; no line follows a final '\n'
lines(s) ==
    [k \in 1..Cardinality(line_starts(s)) |->
        line_at(s, CHOOSE p \in line_starts(s) :
                       Cardinality({q \in line_starts(s) : q < p}) = k - 1)]

\* uu_take without the `produced < line_len` test: padding bytes are kept
uu_take_all(os, room) == os

\* `for o in [o0, o1, o2] { if produced < line_len { out.push(o); ... } }`
uu_take(os, room) == SubSeq(os, 1, IF room < 3 THEN room ELSE 3)

\* `while produced < line_len`: it is what is left of the line's bytes
RECURSIVE uu_line(_, _, _, _)
uu_line(it, produced, line_len, out) ==
    IF ~(produced < line_len) THEN Ok(out)
    ELSE IF Len(it) < 4 THEN Err("truncated uuencode data", 0)
    ELSE LET a == dec6(it[1])
             b == dec6(it[2])
             c == dec6(it[3])
             d == dec6(it[4])
         IN  IF a < 0 \/ b < 0 \/ c < 0 \/ d < 0
             THEN Err("invalid uuencode character", 0)
             ELSE LET o0 == ((a * 4) % 256) + (b \div 16)
                      o1 == ((b * 16) % 256) + (c \div 4)
                      o2 == ((c * 64) % 256) + d
                      got == uu_take(<<o0, o1, o2>>, line_len - produced)
                  IN  uu_line(SubSeq(it, 5, Len(it)), produced + Len(got),
                              line_len, out \o got)

\* `for line in uuencoded.lines()`
RECURSIVE uu_lines(_, _)
uu_lines(ls, out) ==
    IF ls = <<>> THEN Ok(out)
    ELSE LET line == Head(ls)
         IN  IF line = <<>> THEN uu_lines(Tail(ls), out)
             ELSE LET it == str_bytes(line)
                      line_len == dec_len(it[1])
                  IN  IF line_len < 0
                      THEN Err("invalid uuencode length character", 0)
                      ELSE IF line_len = 0 THEN Ok(out)
                      ELSE LET r == uu_line(Tail(it), 0, line_len, out)
                           IN  IF r.kind # "Ok" THEN r
                               ELSE uu_lines(Tail(ls), r.val)

from_uuencode(uuencoded) == uu_lines(lines(uuencoded), <<>>)

\* ------------------------------------------------------------------------
\* ByteVec and Encodable: encode dispatch by tag
\* ------------------------------------------------------------------------
\* the variants of Encoding, as the match of Decodable::try_decode lists them
Encodings == {"Base36", "Base58", "Base64", "Hex", "Uuencode"}

\* EncodedString::new
EncodedString(encoding, string) == [encoding |-> encoding, string |-> string]

\* impl TryFrom<ByteVec> for Base36; a panic of to_base36 goes through
Base36_try_from(value) ==
    LET r == to_base36(value)
    IN  IF r.kind # "Ok" THEN r ELSE Ok(EncodedString("Base36", r.val))

\* impl TryFrom<Base36> for EncodedString
EncodedString_try_from_Base36(value) == Ok(value)

\* impl TryFrom<ByteVec> for Base58, the counterpart of Base36's
Base58_try_from(value) ==
    LET r == to_base58(value)
    IN  IF r.kind # "Ok" THEN r ELSE Ok(EncodedString("Base58", r.val))

\* impl TryFrom<Base58> for EncodedString, the counterpart of Base36's
EncodedString_try_from_Base58(value) == Ok(value)

ByteVec_try_encode_base36(bytes) ==
    LET base36 == Base36_try_from(bytes)
    IN  IF base36.kind # "Ok" THEN base36
        ELSE EncodedString_try_from_Base36(base36.val)

ByteVec_try_encode_base58(bytes) ==
    LET base58 == Base58_try_from(bytes)
    IN  IF base58.kind # "Ok" THEN base58
        ELSE EncodedString_try_from_Base58(base58.val)

\* ByteVec::try_encode sending Base58 to the Base36 arm
ByteVec_try_encode_samearm(bytes, encoding) ==
    IF encoding = "Base36" THEN ByteVec_try_encode_base36(bytes)
    ELSE IF encoding = "Base58" THEN ByteVec_try_encode_base36(bytes)
    ELSE Err("Unsupported encoding", 0)

ByteVec_try_encode(bytes, encoding) ==
    IF encoding = "Base36" THEN ByteVec_try_encode_base36(bytes)
    ELSE IF encoding = "Base58" THEN ByteVec_try_encode_base58(bytes)
    ELSE Err("Unsupported encoding", 0)

\* Encodable::try_encode_base36; conv is what ByteVec::try_from(self) gave
Encodable_try_encode_base36(conv) ==
    IF conv.kind # "Ok" THEN conv ELSE ByteVec_try_encode(conv.val, "Base36")

Encodable_try_encode_base58(conv) ==
    IF conv.kind # "Ok" THEN conv ELSE ByteVec_try_encode(conv.val, "Base58")

Encodable_try_encode(conv, encoding) ==
    IF encoding = "Base36" THEN Encodable_try_encode_base36(conv)
    ELSE IF encoding = "Base58" THEN Encodable_try_encode_base58(conv)
    ELSE Err("Unsupported encoding", 0)

\* ------------------------------------------------------------------------
\* Inputs
\* ------------------------------------------------------------------------
\* byte values of the exhaustive buffers: zero, one, the radixes 36, 58 and
\* 64, the Base64 digit of '0' (52), the top bit alone and the largest byte
ByteVals == {0, 1, 36, 52, 58, 64, 128, 255}

ShortBufs == UNION {[1..k -> ByteVals] : k \in 0..MaxLen}

\* seeds of the patterned buffers; 219 makes the first byte zero
Seeds == {0, 91, 219}

PatternBuf(k, seed) == [i \in 1..k |-> (seed + (37 * i)) % 256]

LongBufs == {PatternBuf(k, seed) : k \in 0..MaxLongLen, seed \in Seeds}

\* longest buffer handed to the radix encoders (their cost is quadratic)
MaxRadixLen == 16

\* chars of the raw texts: '0' '1' 'A' 'z' 'l' '!' ' ' and U+0131
RawChars == {48, 49, 65, 122, 108, 33, 32, 305}

RawTexts == UNION {[1..k -> RawChars] : k \in 0..MaxTextLen}

\* raw uuencode texts: one line over '`' ' ' '!' '$' (the lengths 0, 0, 1, 4)
\* and 'a' (refused by dec6), alone or, one character shorter, after a full
\* line declaring one byte, an empty line, a terminator line, or an empty
\* line and a terminator line written as a space
MaxUuLineLen == 6

UuLineChars == {96, 32, 33, 36, 97}

UuPrefixes ==
    {<<33, 33, 33, 33, 33, 10>>, <<10>>, <<96, 10>>, <<10, 32, 10>>}

UuTexts ==
    (UNION {[1..k -> UuLineChars] : k \in 0..MaxUuLineLen})
        \cup {p \o l : p \in UuPrefixes,
                       l \in UNION {[1..k -> UuLineChars] :
                                        k \in 0..(MaxUuLineLen - 1)}}

Radix == {"base36", "base58", "base64"}

\* the texts a decoder is handed: raw ones and its own encoder's
Sources(codec) ==
    IF codec = "uuencode" THEN {"raw", "rawuu", codec} ELSE {"raw", codec}

\* ------------------------------------------------------------------------
\* The calls as a state machine: a buffer is encoded by one codec and the
\* text decoded by the same codec, or a raw text is decoded (a raw uuencode
\* text by from_uuencode)
\* ------------------------------------------------------------------------
VARIABLES bytes, text, enc, eres, dec, size, out, loop, call

vars == <<bytes, text, enc, eres, dec, size, out, loop, call>>

\* no try_encode has been called
NoCall == [via |-> "none", encoding |-> "none", got |-> "none"]

\* no loop is being followed step by step
Idle == [pc |-> "idle", r |-> 0, n |-> <<>>, out |-> <<>>, k |-> 0, lim |-> 0]

Init ==
    /\ \/ /\ bytes \in ShortBufs \cup LongBufs
          /\ text = <<>>
          /\ enc = "none"
       \/ /\ bytes = <<>>
          /\ text \in RawTexts
          /\ enc = "raw"
       \/ /\ bytes = <<>>
          /\ text \in UuTexts
          /\ enc = "rawuu"
    /\ eres = NoResult
    /\ dec = "none"
    /\ size = 0
    /\ out = NoResult
    /\ loop = Idle
    /\ call = NoCall

Encoded(codec, r) ==
    /\ enc = "none"
    /\ enc' = codec
    /\ eres' = r
    /\ text' = r.val
    /\ UNCHANGED <<bytes, dec, size, out, loop, call>>

ToBase36 == Len(bytes) <= MaxRadixLen /\ Encoded("base36", to_base36(bytes))

ToBase58 == Len(bytes) <= MaxRadixLen /\ Encoded("base58", to_base58(bytes))

TryToBase64 ==
    Len(bytes) <= MaxRadixLen /\ Encoded("base64", try_to_base64(bytes))

ToHex == Encoded("hex", Ok(to_hex(bytes)))

ToUuencode == Encoded("uuencode", Ok(to_uuencode(bytes)))

Decoded(codec, sz, r) ==
    /\ enc \in Sources(codec)
    /\ eres.kind \in {"None", "Ok"}
    /\ dec = "none"
    /\ dec' = codec
    /\ size' = sz
    /\ out' = r
    /\ UNCHANGED <<bytes, text, enc, eres, loop, call>>

\* the sizes a caller passes: none (0), small ones, the buffer's own length
Sizes == (0..MaxSize) \cup {Len(bytes)}

FromBase36 == \E sz \in Sizes : Decoded("base36", sz, from_base36(text, sz))

TryFromBase58 ==
    \E sz \in Sizes : Decoded("base58", sz, try_from_base58(text, sz))

TryFromBase64 ==
    \E sz \in Sizes : Decoded("base64", sz, try_from_base64(text, sz))

FromHex == Decoded("hex", 0, from_hex(text))

FromUuencode == Decoded("uuencode", 0, from_uuencode(text))

\* what ByteVec::try_from(&value) gives an Encodable value holding bytes:
\* the bytes, or the error of a conversion that fails
Conversions(b) == {Ok(b), Err("conversion failed", 0)}

\* ByteVec::new(bytes).try_encode(encoding), or value.try_encode(encoding)
\* for an Encodable value: the string and the tag of the EncodedString that
\* is returned, or the error
TryEncoded(via, encoding, r) ==
    /\ enc = "none"
    /\ Len(bytes) <= MaxRadixLen
    /\ enc' = "dispatch"
    /\ eres' = (IF r.kind = "Ok" THEN Ok(r.val.string) ELSE r)
    /\ text' = (IF r.kind = "Ok" THEN r.val.string ELSE <<>>)
    /\ call' = [via |-> via, encoding |-> encoding,
                got |-> IF r.kind = "Ok" THEN r.val.encoding ELSE "none"]
    /\ UNCHANGED <<bytes, dec, size, out, loop>>

ByteVecTryEncode ==
    \E encoding \in Encodings :
        TryEncoded("ByteVec", encoding, ByteVec_try_encode(bytes, encoding))

EncodableTryEncode ==
    \E encoding \in Encodings : \E conv \in Conversions(bytes) :
        TryEncoded(IF conv.kind = "Ok" THEN "Encodable" ELSE "EncodableErr",
                   encoding, Encodable_try_encode(conv, encoding))

Next ==
    \/ ByteVecTryEncode
    \/ EncodableTryEncode
    \/ ToBase36
    \/ ToBase58
    \/ TryToBase64
    \/ ToHex
    \/ ToUuencode
    \/ FromBase36
    \/ TryFromBase58
    \/ TryFromBase64
    \/ FromHex
    \/ FromUuencode

Spec == Init /\ [][Next]_vars

\* ------------------------------------------------------------------------
\* Reference notions used by the properties
\* ------------------------------------------------------------------------
AlphabetOf(codec) ==
    CASE codec = "base36" -> ALPHABET36
      [] codec = "base58" -> ALPHABET58
      [] codec = "base64" -> ALPHABET64

InAlphabet(codec, c) ==
    \E d \in 1..Len(AlphabetOf(codec)) : AlphabetOf(codec)[d] = c

\* digit value of a char of the alphabet
DigitVal(codec, c) ==
    (CHOOSE d \in 1..Len(AlphabetOf(codec)) : AlphabetOf(codec)[d] = c) - 1

AllZero(b) == \A i \in 1..Len(b) : b[i] = 0

\* a natural number as its decimal limbs (four digits each), least
\* significant first, no leading zero limb: x * m + a
RECURSIVE BigMulAdd(_, _, _)
BigMulAdd(x, m, a) ==
    IF x = <<>>
    THEN (IF a = 0 THEN <<>>
          ELSE <<a % 10000>> \o BigMulAdd(<<>>, m, a \div 10000))
    ELSE LET v == (Head(x) * m) + a
         IN  <<v % 10000>> \o BigMulAdd(Tail(x), m, v \div 10000)

\* the number whose base-R digits, most significant first, are ds
RECURSIVE BigValue(_, _, _)
BigValue(ds, R, acc) ==
    IF ds = <<>> THEN acc
    ELSE BigValue(Tail(ds), R, BigMulAdd(acc, R, Head(ds)))

\* b without its leading zero bytes, [0] when nothing is left
Canon(b) ==
    IF AllZero(b) THEN <<0>>
    ELSE LET k == CHOOSE k \in 1..Len(b) :
                      b[k] # 0 /\ \A j \in 1..(k - 1) : b[j] = 0
         IN  SubSeq(b, k, Len(b))

\* ------------------------------------------------------------------------
\* Properties
\* ------------------------------------------------------------------------
\* C1: for Base36, Base58 and Base64, the text encoded from a buffer with a
\* non-zero byte consists of alphabet chars, does not start with the digit-0
\* char, and its digits, most significant first, denote in base R the same
\* number as the buffer's bytes do in base 256.
C1_CanonicalRepresentation ==
    \A codec \in Radix :
        (enc = codec /\ ~AllZero(bytes)) =>
            /\ eres.kind = "Ok"
            /\ text # <<>>
            /\ \A i \in 1..Len(text) : InAlphabet(codec, text[i])
            /\ text[1] # AlphabetOf(codec)[1]
            /\ BigValue([i \in 1..Len(text) |-> DigitVal(codec, text[i])],
                        Len(AlphabetOf(codec)), <<>>)
                   = BigValue(bytes, 256, <<>>)

C1_Witness ==
    /\ enc \in Radix
    /\ Len(bytes) >= 3
    /\ bytes[1] = 0
    /\ bytes[2] # 0
    /\ Len(text) >= 3

\* C2: decoding with size 0 the Base36 text of a buffer succeeds and gives
\* the buffer without its leading zero bytes ([0] if empty or all zero).
C2_Base36RoundTrip ==
    (enc = "base36" /\ dec = "base36" /\ size = 0) => out = Ok(Canon(bytes))

C2_Witness ==
    /\ enc = "base36" /\ dec = "base36" /\ size = 0
    /\ Len(bytes) >= 2 /\ bytes[1] = 0 /\ bytes[2] # 0
    /\ out.kind = "Ok"

\* C3: decoding with size 0 the Base58 text of a buffer succeeds and gives
\* the buffer without its leading zero bytes ([0] if empty or all zero).
C3_Base58RoundTrip ==
    (enc = "base58" /\ dec = "base58" /\ size = 0) => out = Ok(Canon(bytes))

C3_Witness ==
    /\ enc = "base58" /\ dec = "base58" /\ size = 0
    /\ Len(bytes) >= 2 /\ bytes[1] = 0 /\ bytes[2] # 0
    /\ out.kind = "Ok"

\* C4: decoding with size 0 the Base64 text of a buffer succeeds and gives
\* the buffer without its leading zero bytes ([0] if empty or all zero).
C4_Base64RoundTrip ==
    (enc = "base64" /\ dec = "base64" /\ size = 0) => out = Ok(Canon(bytes))

\* C5: for Base36, Base58 and Base64, decoding the text of a buffer with
\* the buffer's own length as fixed size succeeds and gives the buffer,
\* leading zero bytes included.  (Stated for the non-empty buffers: the
\* length of the empty buffer is 0, which as a size means "no fixed size".)
C5_FixedSizeRoundTrip ==
    \A codec \in Radix :
        (enc = codec /\ dec = codec /\ bytes # <<>> /\ size = Len(bytes))
            => out = Ok(bytes)

\* C6: decoding the uuencoded text of a buffer succeeds and gives exactly
\* the buffer, whatever its length.
C6_UuencodeRoundTrip ==
    (enc = "uuencode" /\ dec = "uuencode") => out = Ok(bytes)

C6_Witness ==
    /\ enc = "uuencode" /\ dec = "uuencode"
    /\ Len(bytes) > 45 /\ Len(bytes) % 3 # 0
    /\ out.kind = "Ok"

\* C7: decoding the hex text of a buffer gives exactly the buffer, leading
\* zero bytes included.
C7_HexRoundTrip ==
    (enc = "hex" /\ dec = "hex") => out = Ok(bytes)

C7_Witness ==
    /\ enc = "hex" /\ dec = "hex"
    /\ Len(bytes) >= 2 /\ bytes[1] = 0 /\ bytes[Len(bytes)] = 255
    /\ out.kind = "Ok"

\* the decode without a size (the natural result) of each radix codec
Natural(codec, t) ==
    CASE codec = "base36" -> base36_to_bytes(t)
      [] codec = "base58" -> base58_to_bytes(t)
      [] codec = "base64" -> base64_to_bytes(t)

FitMsg(codec) ==
    CASE codec = "base36" -> "base36 value does not fit in {size} bytes"
      [] codec = "base58" -> "base58 value does not fit in {size} bytes"
      [] codec = "base64" -> "base64 value does not fit in {size} bytes"

\* C8: for Base36, Base58 and Base64 and a text that decodes, with natural
\* length L: a size > 0 below L fails with the does-not-fit error; a size
\* > 0 of at least L gives size - L zero bytes followed by the natural
\* result; size 0 gives the natural result, which is of minimal length.
C8_FixedSizeDecode ==
    \A codec \in Radix :
        (dec = codec /\ Natural(codec, text).kind = "Ok") =>
            LET nat == Natural(codec, text).val
                L == Len(nat)
            IN  /\ (size > 0 /\ L > size) =>
                       /\ out.kind = "Err"
                       /\ out.msg = FitMsg(codec)
                       /\ out.n = size
                /\ (size > 0 /\ L <= size) =>
                       /\ out.kind = "Ok"
                       /\ Len(out.val) = size
                       /\ \A i \in 1..(size - L) : out.val[i] = 0
                       /\ \A i \in 1..L : out.val[size - L + i] = nat[i]
                /\ size = 0 =>
                       /\ out = Ok(nat)
                       /\ (L = 1 \/ nat[1] # 0)

C8_Witness ==
    /\ enc = "raw" /\ dec \in Radix
    /\ size > 0
    /\ Natural(dec, text).kind = "Ok"
    /\ Len(Natural(dec, text).val) > size
    /\ out.kind = "Err"

InvalidMsg(codec) ==
    CASE codec = "base36" -> "Invalid base36 character"
      [] codec = "base58" -> "invalid base58 character"
      [] codec = "base64" -> "invalid base64 character"

\* C9: for Base36, Base58 and Base64, a text that (once trimmed) contains
\* a char absent from the codec's alphabet fails to decode with the
\* invalid-character error; no such char is taken for a digit.  (The text
\* "0", the canonical zero of all three codecs, is left aside.)
C9_AlphabetRejection ==
    \A codec \in Radix :
        (dec = codec
         /\ trim(text) # <<48>>
         /\ \E i \in 1..Len(trim(text)) : ~InAlphabet(codec, trim(text)[i]))
            => (out.kind = "Err" /\ out.msg = InvalidMsg(codec))

\* C10: for Base36, Base58 and Base64, the empty and the all-zero buffers
\* encode to "0", and "0" decodes with size 0 to the single byte [0].
C10_CanonicalZero ==
    \A codec \in Radix :
        /\ (enc = codec /\ AllZero(bytes)) => eres = Ok(<<48>>)
        /\ (dec = codec /\ text = <<48>> /\ size = 0) => out = Ok(<<0>>)

C10_Witness ==
    /\ enc \in Radix /\ dec = enc /\ size = 0
    /\ Len(bytes) >= 2 /\ AllZero(bytes)
    /\ text = <<48>>
    /\ out = Ok(<<0>>)

\* a char of 0-9a-fA-F
IsHexChar(c) == c \in 48..57 \/ c \in 97..102 \/ c \in 65..70

\* C11: a text whose trimmed length is odd makes from_hex fail with the
\* odd-length failure, returned as an error result and not as a panic.
C11_HexOddLength ==
    (dec = "hex"
     /\ Len(trim(text)) % 2 = 1
     /\ Len(str_bytes(trim(text))) % 2 = 1)
        => (out.kind = "Err" /\ out.val = <<>>)

\* C12: a non-empty trimmed text of even length with a char outside
\* 0-9a-fA-F makes from_hex fail with the invalid-character failure,
\* returned as an error result and not as a panic; no buffer is produced.
C12_HexInvalidCharacter ==
    (dec = "hex"
     /\ trim(text) # <<>>
     /\ Len(trim(text)) % 2 = 0
     /\ Len(str_bytes(trim(text))) % 2 = 0
     /\ \E i \in 1..Len(trim(text)) : ~IsHexChar(trim(text)[i]))
        => (out.kind = "Err" /\ out.val = <<>>)

\* the lowercase hex digit of a nibble
HexChar(d) == IF d < 10 THEN 48 + d ELSE 87 + d

\* C13: to_hex gives 2 * len(b) chars; the chars at (0-based) 2i and 2i+1
\* are the lowercase hex digits of the high and the low nibble of b[i].
C13_HexPositional ==
    enc = "hex" =>
        /\ eres.kind = "Ok"
        /\ Len(text) = 2 * Len(bytes)
        /\ \A i \in 1..Len(bytes) :
               /\ text[(2 * i) - 1] = HexChar(bytes[i] \div 16)
               /\ text[2 * i] = HexChar(bytes[i] % 16)

C13_Witness ==
    /\ enc = "hex"
    /\ Len(bytes) >= 3
    /\ bytes[1] = 0
    /\ \E i \in 1..Len(bytes) : bytes[i] % 16 >= 10 /\ bytes[i] \div 16 < 10
    /\ Len(text) = 2 * Len(bytes)

\* ceiling of a / b
CeilDiv(a, b) == (a + b - 1) \div b

\* length of the chunk that data line j (from 0) of an n-byte buffer covers
ChunkLen(n, j) == IF n - (45 * j) < 45 THEN n - (45 * j) ELSE 45

\* index in the text at which data line j starts: every earlier line is
\* full, that is 1 + 60 + 1 chars
LineStart(j) == (62 * j) + 1

\* C14: to_uuencode of n bytes gives ceil(n/45) data lines and then the
\* terminator "`\n"; data line j covers bytes 45j..min(45j+45, n), starts
\* with the char of its chunk length (1..45, plus 0x20), carries exactly
\* 4 * ceil(length / 3) data chars and ends with a newline.
C14_UuencodeFraming ==
    enc = "uuencode" =>
        LET n == Len(bytes)
            nl == CeilDiv(n, 45)
            last == IF nl = 0 THEN 1
                    ELSE LineStart(nl - 1) + 2
                             + (4 * CeilDiv(ChunkLen(n, nl - 1), 3))
        IN  /\ eres.kind = "Ok"
            /\ Len(text) = last + 1
            /\ text[last] = 96
            /\ text[last + 1] = 10
            /\ \A j \in 0..(nl - 1) :
                   LET L == ChunkLen(n, j)
                       p == LineStart(j)
                       k == 4 * CeilDiv(L, 3)
                       top == bytes[(45 * j) + 1] \div 4
                   IN  /\ L \in 1..45
                       /\ text[p] = L + 32
                       /\ text[p + 1] = (IF top = 0 THEN 96 ELSE top + 32)
                       /\ \A i \in 1..k : text[p + i] # 10
                       /\ text[p + k + 1] = 10
                       /\ (j < nl - 1 => p + k + 2 = LineStart(j + 1))

C14_Witness ==
    /\ enc = "uuencode"
    /\ Len(bytes) = 46
    /\ Len(text) = 62 + 6 + 2
    /\ text[1] = 77
    /\ text[63] = 33

\* ------------------------------------------------------------------------
\* Uuencode lines, read independently of the decoder
\* ------------------------------------------------------------------------
\* the bytes of each line of the text
UuLines ==
    LET ls == lines(text) IN [i \in 1..Len(ls) |-> str_bytes(ls[i])]

\* the 6-bit value a byte stands for, -1 outside 0x20..0x60
SixBit(c) == IF c \in 32..96 THEN (c - 32) % 64 ELSE -1

\* the packed characters a line of L bytes needs
Need(L) == 4 * CeilDiv(L, 3)

\* a non-empty line whose length prefix declares at least one byte
IsDataLine(l) == l # <<>> /\ SixBit(l[1]) >= 1

\* a data line that ends before its packed characters are all there
IsShortLine(l) == IsDataLine(l) /\ Len(l) - 1 < Need(SixBit(l[1]))

\* a data line with all its packed characters, each one decodable
IsFullLine(l) ==
    /\ IsDataLine(l)
    /\ Len(l) - 1 >= Need(SixBit(l[1]))
    /\ \A k \in 2..(Need(SixBit(l[1])) + 1) : SixBit(l[k]) >= 0

\* line i is reached: every line before it is empty or a full data line
ReachedIn(ls, i) == \A j \in 1..(i - 1) : ls[j] = <<>> \/ IsFullLine(ls[j])

Reached(i) == ReachedIn(UuLines, i)

\* the groups of four that are whole on line l decode
WholeGroupsValid(l) ==
    \A k \in 2..(1 + (4 * ((Len(l) - 1) \div 4))) : SixBit(l[k]) >= 0

\* C15 as stated: whenever some line declares L >= 1 bytes and carries fewer
\* than 4 * ceil(L/3) characters after the prefix, from_uuencode fails with
\* "truncated uuencode data" and returns no output.
C15_TruncatedAnyLine ==
    (dec = "uuencode" /\ \E i \in 1..Len(UuLines) : IsShortLine(UuLines[i]))
        => (out.kind = "Err" /\ out.msg = "truncated uuencode data"
            /\ out.val = <<>>)

\* C15 amended: whenever a line that the decoder reaches (every earlier line
\* is empty or a full valid data line) declares L >= 1 bytes and carries fewer
\* than 4 * ceil(L/3) characters after the prefix, from_uuencode fails and
\* returns no output; the error is "truncated uuencode data" when every whole
\* group of four on the line decodes, and "invalid uuencode character"
\* otherwise.
C15_TruncatedReachedLine ==
    dec = "uuencode" =>
        \A i \in 1..Len(UuLines) :
            (Reached(i) /\ IsShortLine(UuLines[i])) =>
                /\ out.kind = "Err"
                /\ out.val = <<>>
                /\ out.msg = (IF WholeGroupsValid(UuLines[i])
                              THEN "truncated uuencode data"
                              ELSE "invalid uuencode character")

\* a full one-byte line, then a line declaring four bytes with one whole
\* valid group and no more
C15_Witness ==
    /\ dec = "uuencode"
    /\ Len(UuLines) = 2
    /\ IsFullLine(UuLines[1])
    /\ IsShortLine(UuLines[2])
    /\ Len(UuLines[2]) >= 5
    /\ WholeGroupsValid(UuLines[2])
    /\ out.kind = "Err"
    /\ out.msg = "truncated uuencode data"

\* C16 (stated for the lines the decoder reaches): whenever a reached
\* non-empty line has a byte failing dec6 as its length prefix, or declares
\* L >= 1 bytes, carries its 4 * ceil(L/3) packed characters and has a byte
\* failing dec6 anywhere on it, from_uuencode fails with an invalid-character
\* error.
C16_InvalidCharacterOnLine ==
    (/\ dec = "uuencode"
     /\ \E i \in 1..Len(UuLines) :
            /\ Reached(i)
            /\ UuLines[i] # <<>>
            /\ \/ SixBit(UuLines[i][1]) < 0
               \/ /\ IsDataLine(UuLines[i])
                  /\ ~IsShortLine(UuLines[i])
                  /\ \E k \in 1..Len(UuLines[i]) : SixBit(UuLines[i][k]) < 0)
        => /\ out.kind = "Err"
           /\ out.msg \in {"invalid uuencode length character",
                           "invalid uuencode character"}

\* C17: encoding is total: to_base36, to_base58, try_to_base64, to_hex and
\* to_uuencode return a text for every buffer, empty and all-zero ones
\* included; no long-division quotient leaves a byte, no remainder leaves the
\* alphabet (the text of a radix codec is "0" or made of alphabet symbols),
\* and that text is never empty (the empty-string fallback of
\* Base64::try_encode has nothing to replace).
C17_EncodingTotal ==
    enc \in {"base36", "base58", "base64", "hex", "uuencode"} =>
        /\ eres.kind = "Ok"
        /\ text = eres.val
        /\ enc \in Radix =>
               /\ text # <<>>
               /\ \/ text = <<48>>
                  \/ \A i \in 1..Len(text) : InAlphabet(enc, text[i])

\* a long buffer with the top bit set whose Base36 text holds the last symbol
C17_Witness ==
    /\ enc = "base36"
    /\ Len(bytes) >= 10
    /\ bytes[1] = 128
    /\ eres.kind = "Ok"
    /\ \E i \in 1..Len(text) : text[i] = 122

\* C18: for Base36, Base58 and Base64 and every non-empty text whose
\* characters all belong to the codec's alphabet, decoding with size 0
\* returns the bytes that denote, in base 256 and most significant first, the
\* number the characters' alphabet positions denote in base R, with no
\* leading zero byte unless it is the only byte.
C18_HornerMinimal ==
    \A codec \in Radix :
        (/\ dec = codec
         /\ size = 0
         /\ text # <<>>
         /\ \A i \in 1..Len(text) : InAlphabet(codec, text[i]))
            => /\ out.kind = "Ok"
               /\ out.val # <<>>
               /\ Len(out.val) = 1 \/ out.val[1] # 0
               /\ BigValue(out.val, 256, <<>>)
                      = BigValue([i \in 1..Len(text) |->
                                     DigitVal(codec, text[i])],
                                 Len(AlphabetOf(codec)), <<>>)

\* C19 as stated: every character of to_uuencode's output is a newline or
\* lies in 0x20..0x5F.
C19_OutputRangeSpaceToUnderscore ==
    enc = "uuencode" =>
        \A i \in 1..Len(text) : text[i] = 10 \/ text[i] \in 32..95

\* C19 amended: every character of to_uuencode's output is a newline or lies
\* in 0x21..0x60: the zero group is written as a backtick, never as a space.
C19_OutputRangeBangToBacktick ==
    enc = "uuencode" =>
        /\ eres.kind = "Ok"
        /\ \A i \in 1..Len(text) : text[i] = 10 \/ text[i] \in 33..96

\* a buffer whose packed characters hold a zero group and a group of 63
C19_Witness ==
    /\ enc = "uuencode"
    /\ Len(bytes) >= 2
    /\ \E i \in 2..(Len(text) - 3) : text[i] = 96
    /\ \E i \in 2..(Len(text) - 3) : text[i] = 95

\* the first line that is a terminator (non-empty, length prefix of value 0),
\* one past the last line when there is none
TermIndexIn(ls) ==
    IF \E i \in 1..Len(ls) : ls[i] # <<>> /\ SixBit(ls[i][1]) = 0
    THEN CHOOSE i \in 1..Len(ls) :
             /\ ls[i] # <<>> /\ SixBit(ls[i][1]) = 0
             /\ \A j \in 1..(i - 1) : ls[j] = <<>> \/ SixBit(ls[j][1]) # 0
    ELSE Len(ls) + 1

TermIndex == TermIndexIn(UuLines)

\* the L bytes a full data line stands for: byte k is the k-th byte of the
\* 24-bit words its groups of four denote
LineBytes(l) ==
    IF l = <<>> THEN <<>>
    ELSE [k \in 1..SixBit(l[1]) |->
             LET g == 2 + (4 * ((k - 1) \div 3))
                 w == (SixBit(l[g]) * 262144) + (SixBit(l[g + 1]) * 4096)
                          + (SixBit(l[g + 2]) * 64) + SixBit(l[g + 3])
                 p == (k - 1) % 3
             IN  (w \div (IF p = 0 THEN 65536 ELSE IF p = 1 THEN 256 ELSE 1))
                     % 256]

\* the bytes of lines 1..i, in order
RECURSIVE BytesUpToIn(_, _)
BytesUpToIn(ls, i) ==
    IF i = 0 THEN <<>> ELSE BytesUpToIn(ls, i - 1) \o LineBytes(ls[i])

BytesUpTo(i) == BytesUpToIn(UuLines, i)

\* C20: when from_uuencode succeeds, every line before the terminator that
\* declares L >= 1 bytes has added exactly L bytes to the output, those its
\* first 4 * ceil(L/3) packed characters stand for; the bytes of the last
\* group beyond L are dropped.
C20_PerLineByteCount ==
    (dec = "uuencode" /\ out.kind = "Ok") =>
        /\ \A i \in 1..(TermIndex - 1) :
               UuLines[i] = <<>> \/ IsFullLine(UuLines[i])
        /\ out.val = BytesUpTo(TermIndex - 1)

\* two full data lines decoded, the second one ending in a partial triple
C20_Witness ==
    /\ dec = "uuencode"
    /\ out.kind = "Ok"
    /\ TermIndex > 2
    /\ IsFullLine(UuLines[1])
    /\ IsFullLine(UuLines[2])
    /\ SixBit(UuLines[2][1]) % 3 # 0
    /\ Len(out.val) = SixBit(UuLines[1][1]) + SixBit(UuLines[2][1])

\* C21: from_uuencode skips empty lines, and the first non-empty line whose
\* length prefix has the value 0 (backtick or space) ends decoding: when
\* every line before it is empty or a full valid data line, the call returns
\* exactly the bytes of those lines, whatever the terminator line and the
\* lines after it hold; with no terminator the same holds for all the lines.
C21_TerminatorAndEmptyLines ==
    (dec = "uuencode" /\ Reached(TermIndex)) =>
        /\ out.kind = "Ok"
        /\ out.val = BytesUpTo(TermIndex - 1)

\* an empty line, a terminator written as a space, then a line that would
\* fail if it were read (a refused character, or a truncated data line)
C21_Witness ==
    /\ dec = "uuencode"
    /\ Len(UuLines) = 3
    /\ UuLines[1] = <<>>
    /\ TermIndex = 2
    /\ UuLines[2][1] = 32
    /\ UuLines[3] # <<>>
    /\ \/ SixBit(UuLines[3][1]) < 0
       \/ IsShortLine(UuLines[3])
    /\ out.kind = "Ok"
    /\ out.val = <<>>

\* a hex letter in the other case, any other character unchanged
SwapCase(c) ==
    IF c \in 97..102 THEN c - 32 ELSE IF c \in 65..70 THEN c + 32 ELSE c

\* the positions whose case is swapped: every choice for a short text, all,
\* the odd and the even positions for a long one
FlipSets(n) ==
    IF n <= 6 THEN SUBSET (1..n)
    ELSE {1..n, {i \in 1..n : i % 2 = 1}, {i \in 1..n : i % 2 = 0}}

CaseVariant(s, F) == [i \in 1..Len(s) |-> IF i \in F THEN SwapCase(s[i]) ELSE s[i]]

\* C22: from_hex does not tell the case of the letters a-f apart: for every
\* even-length text of hex digits, from_hex returns bytes, and returns the
\* same bytes for the text with the case of any of its letters changed; an
\* empty or whitespace-only text gives the empty buffer.
C22_HexCaseAndEmpty ==
    dec = "hex" =>
        /\ (/\ text # <<>>
            /\ Len(text) % 2 = 0
            /\ \A i \in 1..Len(text) : IsHexChar(text[i]))
               => /\ out.kind = "Ok"
                  /\ Len(out.val) = Len(text) \div 2
                  /\ \A F \in FlipSets(Len(text)) :
                         from_hex(CaseVariant(text, F)) = out
        /\ (\A i \in 1..Len(text) : is_whitespace(text[i]))
               => out = Ok(<<>>)

\* the raw text "AA" decoded: its variants are "aA", "Aa" and "aa"
C22_Witness ==
    /\ dec = "hex"
    /\ enc = "raw"
    /\ text = <<65, 65>>
    /\ out = Ok(<<170>>)
    /\ from_hex(<<97, 97>>) = out

\* the text between its first and its last non-whitespace character
Core(s) ==
    LET ix == {i \in 1..Len(s) : ~is_whitespace(s[i])}
    IN  IF ix = {} THEN <<>>
        ELSE SubSeq(s, CHOOSE i \in ix : \A j \in ix : i <= j,
                       CHOOSE i \in ix : \A j \in ix : i >= j)

\* whitespace put before and after a text: a newline after; a space before;
\* a tab and an ideographic space before, a space and a carriage return after
Pads == {<<<<>>, <<10>>>>, <<<<32>>, <<>>>>, <<<<9, 12288>>, <<32, 13>>>>}

Decode(codec, t, sz) ==
    CASE codec = "base36" -> from_base36(t, sz)
      [] codec = "base58" -> try_from_base58(t, sz)
      [] codec = "base64" -> try_from_base64(t, sz)

\* C23: for Base36, Base58 and Base64 and every size, a text decodes to what
\* the text without its surrounding whitespace decodes to, and so does the
\* text with more whitespace put before and after it (same bytes or same
\* error); an empty or whitespace-only text decodes to the single zero byte
\* (left-padded with zeros to a size > 0); whitespace that is left inside
\* the trimmed text is rejected as an invalid character.
C23_WhitespaceTrimming ==
    \A codec \in Radix :
        dec = codec =>
            /\ out = Decode(codec, Core(text), size)
            /\ \A p \in Pads : Decode(codec, p[1] \o text \o p[2], size) = out
            /\ Core(text) = <<>> =>
                   out = Ok(IF size = 0 THEN <<0>> ELSE [i \in 1..size |-> 0])
            /\ (\E i \in 1..Len(Core(text)) : is_whitespace(Core(text)[i]))
                   => /\ out.kind = "Err"
                      /\ out.msg = InvalidMsg(codec)
                      /\ out.val = <<>>

\* a raw text with whitespace on both sides of a digit, decoded to bytes
C23_Witness ==
    /\ dec \in Radix
    /\ Len(text) = 3
    /\ text[1] = 32
    /\ text[3] = 32
    /\ ~is_whitespace(text[2])
    /\ out.kind = "Ok"
    /\ out.val # <<0>>

\* ------------------------------------------------------------------------
\* The loops, one pass at a time
\* ------------------------------------------------------------------------
\* loop.pc says which loop is followed: "div" the outer long-division loop of
\* an encoder (n the working buffer, out the remainders pushed so far), "mul"
\* and "carry" one digit of a decoder (n the accumulator, k the carry), "uu"
\* the per-line loop of from_uuencode (n what is left of the line, k the
\* produced count, lim the declared length, out the bytes pushed).  bytes
\* keeps the input.

\* `rem` of the inner long-division loop once it has passed index i
RECURSIVE rem_upto(_, _, _)
rem_upto(r, n, i) ==
    IF i = 0 THEN 0 ELSE ((rem_upto(r, n, i - 1) * 256) + n[i]) % r

\* the inner loop of the long division by r, over the whole buffer: every
\* byte becomes v / r for v = rem * 256 + byte, and the conversion to u8
\* panics if that leaves a byte
div_pass(r, n) ==
    [n |-> [i \in 1..Len(n) |-> ((rem_upto(r, n, i - 1) * 256) + n[i]) \div r],
     rem |-> rem_upto(r, n, Len(n)),
     panic |-> \E i \in 1..Len(n) :
                   ((rem_upto(r, n, i - 1) * 256) + n[i]) \div r > 255]

\* the condition of the outer loop: `!n.is_empty()` in to_base36, with
\* `&& n.iter().any(|&b| b != 0)` in to_base58 and try_to_base64
div_more(r, n) ==
    IF r = 36 THEN n # <<>>
    ELSE n # <<>> /\ \E i \in 1..Len(n) : n[i] # 0

\* `for b in acc.iter_mut().rev()`: the accumulator times r plus the digit
mul_pass(r, acc, digit) ==
    CASE r = 36 -> muladd36(acc, Len(acc), digit)
      [] r = 58 -> muladd58(acc, Len(acc), digit)
      [] r = 64 -> muladd64(acc, Len(acc), digit)

\* the carry loop without its shift
carry_step_noshift(carry) == carry

\* `carry >>= 8`
carry_step(carry) == carry \div 256

\* the four `it.next()` and the four dec6 of one pass of the per-line loop:
\* the three bytes of the group, or the error
uu_group(it) ==
    IF Len(it) < 4 THEN Err("truncated uuencode data", 0)
    ELSE LET a == dec6(it[1])
             b == dec6(it[2])
             c == dec6(it[3])
             d == dec6(it[4])
         IN  IF a < 0 \/ b < 0 \/ c < 0 \/ d < 0
             THEN Err("invalid uuencode character", 0)
             ELSE Ok(<<((a * 4) % 256) + (b \div 16),
                       ((b * 16) % 256) + (c \div 4),
                       ((c * 64) % 256) + d>>)

\* the buffers the long division starts from: those with a non-zero byte
DivBufs ==
    {b \in ShortBufs \cup LongBufs :
        Len(b) <= MaxRadixLen /\ \E i \in 1..Len(b) : b[i] # 0}

\* the accumulators of a decoder: [0] at first, no leading zero byte later
AccBufs == {b \in ShortBufs : b # <<>> /\ (Len(b) = 1 \/ b[1] # 0)}

\* the non-empty lines from_uuencode may meet: short raw ones and the first
\* line of every encoder output
UuLoopLines ==
    (UNION {[1..k -> UuLineChars] : k \in 1..(MaxUuLineLen - 1)})
        \cup {lines(to_uuencode(b))[1] : b \in ShortBufs \cup LongBufs}

LoopInit ==
    /\ bytes = <<>>
    /\ text = <<>>
    /\ enc = "none"
    /\ eres = NoResult
    /\ dec = "none"
    /\ size = 0
    /\ out = NoResult
    /\ loop = Idle
    /\ call = NoCall

\* a call comes to one of its loops: the long division of a buffer with a
\* non-zero byte, the multiply-and-add of a digit into an accumulator, or a
\* line of from_uuencode that declares at least one byte
LoopEnter ==
    /\ loop.pc = "idle"
    /\ \/ /\ bytes' \in DivBufs
          /\ \E r \in {36, 58, 64} :
                 loop' = [pc |-> "div", r |-> r, n |-> bytes', out |-> <<>>,
                          k |-> 0, lim |-> 0]
       \/ /\ bytes' \in AccBufs
          /\ \E r \in {36, 58, 64} : \E digit \in {0, 1, r - 1} :
                 loop' = [pc |-> "mul", r |-> r, n |-> bytes', out |-> <<>>,
                          k |-> digit, lim |-> 0]
       \/ /\ bytes' \in UuLoopLines
          /\ dec_len(bytes'[1]) >= 1
          /\ loop' = [pc |-> "uu", r |-> 0, n |-> Tail(bytes'), out |-> <<>>,
                      k |-> 0, lim |-> dec_len(bytes'[1])]
    /\ UNCHANGED <<text, enc, eres, dec, size, out, call>>

\* one pass of the outer loop of to_base36 / to_base58 / try_to_base64
DivPass ==
    /\ loop.pc = "div"
    /\ LET d == div_pass(loop.r, loop.n)
           n2 == strip_front_zeros(d.n)
       IN  loop' = IF d.panic \/ d.rem > (IF loop.r = 36 THEN 255 ELSE loop.r - 1)
                   THEN [loop EXCEPT !.pc = "panic"]
                   ELSE [loop EXCEPT !.n = n2,
                                     !.out = Append(@, d.rem),
                                     !.pc = IF div_more(loop.r, n2)
                                            THEN "div" ELSE "done"]
    /\ UNCHANGED <<bytes, text, enc, eres, dec, size, out, call>>

\* the multiply-and-add pass of one digit; the carry loop follows
MulPass ==
    /\ loop.pc = "mul"
    /\ LET m == mul_pass(loop.r, loop.n, loop.k)
       IN  loop' = [loop EXCEPT !.n = m.acc,
                                !.k = m.carry,
                                !.pc = IF m.carry > 0 THEN "carry" ELSE "done"]
    /\ UNCHANGED <<bytes, text, enc, eres, dec, size, out, call>>

\* one pass of `while carry > 0`
CarryStep ==
    /\ loop.pc = "carry"
    /\ loop' = [loop EXCEPT !.n = <<loop.k % 256>> \o @,
                            !.k = carry_step(loop.k),
                            !.pc = IF carry_step(loop.k) > 0
                                   THEN "carry" ELSE "done"]
    /\ UNCHANGED <<bytes, text, enc, eres, dec, size, out, call>>

\* one pass of `while produced < line_len`
UuPass ==
    /\ loop.pc = "uu"
    /\ LET g == uu_group(loop.n)
       IN  loop' = IF g.kind # "Ok"
                   THEN [loop EXCEPT !.pc = "err", !.out = <<>>]
                   ELSE LET got == uu_take(g.val, loop.lim - loop.k)
                        IN  [loop EXCEPT
                                !.n = SubSeq(@, 5, Len(@)),
                                !.out = @ \o got,
                                !.k = @ + Len(got),
                                !.pc = IF loop.k + Len(got) < loop.lim
                                       THEN "uu" ELSE "done"]
    /\ UNCHANGED <<bytes, text, enc, eres, dec, size, out, call>>

LoopNext == LoopEnter \/ DivPass \/ MulPass \/ CarryStep \/ UuPass

\* a call that is in a loop keeps running
LoopSpec ==
    /\ LoopInit
    /\ [][LoopNext]_vars
    /\ WF_vars(DivPass \/ MulPass \/ CarryStep \/ UuPass)

\* a buffer without its leading zero bytes (empty for the value zero)
NoLead(b) ==
    IF AllZero(b) THEN <<>>
    ELSE SubSeq(b, CHOOSE k \in 1..Len(b) :
                       b[k] # 0 /\ \A j \in 1..(k - 1) : b[j] = 0, Len(b))

\* a < b as numbers, for buffers without leading zero bytes
BufLess(a, b) ==
    \/ Len(a) < Len(b)
    \/ /\ Len(a) = Len(b)
       /\ \E i \in 1..Len(a) :
              a[i] < b[i] /\ \A j \in 1..(i - 1) : a[j] = b[j]

\* what one pass of each loop does to its measure
PassProgress ==
    /\ loop.pc = "div" =>
           /\ loop'.pc \in {"div", "done"}
           /\ BufLess(NoLead(loop'.n), NoLead(loop.n))
           /\ loop'.pc = "done" <=> loop'.n = <<>>
    /\ loop.pc = "mul" => loop'.pc \in {"carry", "done"}
    /\ loop.pc = "carry" =>
           /\ loop.k > 0
           /\ loop'.k = loop.k \div 256
           /\ loop'.k < loop.k
           /\ loop'.pc = "done" <=> loop'.k = 0
    /\ loop.pc = "uu" =>
           \/ loop'.pc = "err"
           \/ /\ loop'.k >= loop.k + 1
              /\ loop'.k <= loop.lim
              /\ loop'.pc \in {"uu", "done"}
              /\ loop'.pc = "done" <=> loop'.k = loop.lim

\* C24: every loop ends: each pass of the outer long-division loop of an
\* encoder leaves a strictly smaller number in the working buffer, until the
\* buffer is empty; each pass of a decoder's carry loop shifts the carry right
\* by 8, until it is zero; each pass of the per-line loop of from_uuencode
\* returns an error or adds at least one to the produced count, until it is
\* the declared length; and so every loop that is entered comes to its end.
C24_Termination ==
    /\ [][PassProgress]_vars
    /\ (loop.pc \in {"div", "mul", "carry", "uu"})
           ~> (loop.pc \in {"done", "err"})

\* the outer loop of to_base58 over a long buffer has ended, after a pass for
\* each of its digits
C24_Witness ==
    /\ loop.pc = "done"
    /\ loop.r = 58
    /\ Len(bytes) >= 10
    /\ loop.n = <<>>
    /\ Len(loop.out) >= Len(bytes) + 3

\* the radix codec an Encoding tag stands for
CodecOf(encoding) == IF encoding = "Base36" THEN "base36" ELSE "base58"

\* what to_base36 / to_base58 return for the bytes
DirectText(encoding) ==
    IF encoding = "Base36" THEN to_base36(bytes).val ELSE to_base58(bytes).val

\* C25: ByteVec::try_encode(encoding), and Encodable::try_encode for a value
\* whose conversion to bytes succeeds, return for the tags Base36 and Base58
\* an EncodedString with the requested tag whose string is what to_base36 /
\* to_base58 return for the bytes (the text of the same number in that radix,
\* "0" for an empty or all-zero buffer), and for the tags Base64, Hex and
\* Uuencode the error "Unsupported encoding" and no string.
C25_EncodeDispatch ==
    (enc = "dispatch" /\ call.via \in {"ByteVec", "Encodable"}) =>
        /\ call.encoding \in {"Base36", "Base58"} =>
               /\ eres.kind = "Ok"
               /\ call.got = call.encoding
               /\ text = eres.val
               /\ text = DirectText(call.encoding)
               /\ IF AllZero(bytes) THEN text = <<48>>
                  ELSE /\ \A i \in 1..Len(text) :
                              InAlphabet(CodecOf(call.encoding), text[i])
                       /\ BigValue([i \in 1..Len(text) |->
                                       DigitVal(CodecOf(call.encoding), text[i])],
                                   Len(AlphabetOf(CodecOf(call.encoding))), <<>>)
                              = BigValue(bytes, 256, <<>>)
        /\ call.encoding \in {"Base64", "Hex", "Uuencode"} =>
               /\ eres.kind = "Err"
               /\ eres.msg = "Unsupported encoding"
               /\ call.got = "none"
               /\ text = <<>>

\* an Encodable value holding a long buffer, encoded with the tag Base58
C25_Witness ==
    /\ enc = "dispatch"
    /\ call.via = "Encodable"
    /\ call.encoding = "Base58"
    /\ call.got = "Base58"
    /\ Len(bytes) >= 10
    /\ eres.kind = "Ok"
    /\ Len(text) > Len(bytes)

====
